---- MODULE Spec2Model ----
(***************************************************************************)
(* A model of src/protdiff/modelling.py: the BertForDiffusion denoiser,    *)
(* its construction (__init__, from_dir), its loss composition             *)
(* (_get_loss_terms), the shapes that flow through forward and the two     *)
(* time encoders, and the training / validation step handlers.             *)
(*                                                                         *)
(* Tensors are modelled by their shape (a sequence of dimension sizes) or, *)
(* where values matter, by functions over small integer grids.  A Python   *)
(* exception raised by a call is recorded by name in the variable raised.  *)
(***************************************************************************)
EXTENDS Integers, Sequences, FiniteSets, TLC

VARIABLES
    op,         \* name of the last operation that ran ("none" initially)
    args,       \* the inputs that operation was called with
    raised,     \* the exception it raised, or NoError
    retval,     \* the value it returned (NoValue when it raised)
    model,      \* the BertForDiffusion instance (a record; NoModel when absent)
    logged,     \* the metrics dictionary of the last log_dict call
    preds_dir,  \* names of the files present in write_preds_to_dir
    val_writes  \* file names written by the completed validation steps, in order

vars == <<op, args, raised, retval, model, logged, preds_dir, val_writes>>

----------------------------------------------------------------------------
(* Bounds of the model.                                                    *)

MaxChannels == 2
MaxBatch == 2
MaxSeqLen == 2
MaxHidden == 5
MaxSteps == 2
MaxEpochs == 2
MaxCkpts == 3
MaxTime == 1

----------------------------------------------------------------------------
(* Python values that have no direct TLA+ counterpart.                     *)

None == "<None>"
NoError == "<no error>"
NoValue == [kind |-> "novalue"]
NoModel == [built |-> FALSE]
NoLog == [kind |-> "nolog"]

Range(s) == {s[i] : i \in 1..Len(s)}

RECURSIVE SumSeq(_)
SumSeq(s) == IF s = <<>> THEN 0 ELSE s[1] + SumSeq(Tail(s))

Abs(x) == IF x < 0 THEN -x ELSE x

Truthy(s) == s # None /\ s # ""

----------------------------------------------------------------------------
(* Loss tables of BertForDiffusion.  A loss callable is named by the       *)
(* function it is.                                                         *)

StandardLosses == {"F.l1_loss", "F.smooth_l1_loss"}
AngleAwareLosses == {"losses.radian_l1_loss", "partial(losses.radian_smooth_l1_loss)"}

nonangular_loss_fn_dict ==
    [k \in {"l1", "smooth_l1"} |->
        IF k = "l1" THEN "F.l1_loss" ELSE "F.smooth_l1_loss"]

angular_loss_fn_dict ==
    [k \in {"l1", "smooth_l1"} |->
        IF k = "l1" THEN "losses.radian_l1_loss"
                    ELSE "partial(losses.radian_smooth_l1_loss)"]

loss_autocorrect_dict_l1 == [k \in {"radian_l1_smooth"} |-> "l1"]

loss_autocorrect_dict == [k \in {"radian_l1_smooth"} |-> "smooth_l1"]

\* A loss argument: a string name, one callable, or a list / tuple of callables.
StrLoss(name) == [kind |-> "str", name |-> name, fns |-> <<>>]
FnLoss(kind, fns) == [kind |-> kind, name |-> "", fns |-> fns]

\* ft_names: Optional[List[str]]
NoNames == [given |-> FALSE, names |-> <<>>]
Names(ns) == [given |-> TRUE, names |-> ns]

DefaultFtNames(n) ==
    [i \in 1..n |-> <<"ft0", "ft1", "ft2", "ft3", "ft4", "ft5", "ft6", "ft7", "ft8">>[i]]

SelectSwapped(loss, ft_is_angular) ==
    [i \in 1..Len(ft_is_angular) |->
        IF ft_is_angular[i] THEN nonangular_loss_fn_dict[loss]
                            ELSE angular_loss_fn_dict[loss]]

\* The list comprehension of __init__ that maps a loss name to per-channel losses.
SelectLossFuncs(loss, ft_is_angular) ==
    [i \in 1..Len(ft_is_angular) |->
        IF ft_is_angular[i] THEN angular_loss_fn_dict[loss]
                            ELSE nonangular_loss_fn_dict[loss]]

Autocorrect(loss) ==
    IF loss \in DOMAIN loss_autocorrect_dict THEN loss_autocorrect_dict[loss] ELSE loss

Raise(exc) == [raised |-> exc, self |-> NoModel]

\* BertForDiffusion.__init__(config, **a) with init_weights() drawing w; time
\* is counted from the construction.  Returns the exception raised, or the
\* constructed instance.
__init__(a, w) ==
    LET n_inputs == Len(a.ft_is_angular)
        ft_names == IF a.ft_names.given THEN a.ft_names.names ELSE DefaultFtNames(n_inputs)
        loss == IF a.loss.kind = "str" THEN Autocorrect(a.loss.name) ELSE ""
        loss_func ==
            IF a.loss.kind = "str"
            THEN FnLoss("list", SelectLossFuncs(loss, a.ft_is_angular))
            ELSE a.loss
    IN  IF a.config.is_decoder THEN Raise("NotImplementedError")
        ELSE IF Len(ft_names) # n_inputs THEN Raise("AssertionError")
        ELSE IF a.loss.kind = "str" /\ loss \notin DOMAIN angular_loss_fn_dict
            THEN Raise("KeyError")
        ELSE IF loss_func.kind \in {"list", "tuple"} /\ Len(loss_func.fns) # n_inputs
            THEN Raise("AssertionError")
        ELSE IF a.decoder \notin {"linear", "mlp"} THEN Raise("ValueError")
        ELSE IF a.time_encoding \notin {"gaussian_fourier", "sinusoidal"}
            THEN Raise("ValueError")
        ELSE [raised |-> NoError,
              self |-> [built |-> TRUE,
                        config |-> a.config,
                        n_inputs |-> n_inputs,
                        ft_names |-> ft_names,
                        learning_rate |-> a.lr,
                        loss_func |-> loss_func,
                        l1_lambda |-> a.l1,
                        l2_lambda |-> a.l2,
                        circle_lambda |-> a.circle_reg,
                        epochs |-> a.epochs,
                        steps_per_epoch |-> a.steps_per_epoch,
                        lr_scheduler |-> a.lr_scheduler,
                        token_decoder |-> a.decoder,
                        time_embed |-> a.time_encoding,
                        parameters |-> w,
                        write_preds_to_dir |-> a.write_preds_to_dir,
                        write_preds_counter |-> 0,
                        train_epoch_counter |-> 0,
                        train_epoch_last_time |-> 0]]

----------------------------------------------------------------------------
(* Calling the constructor with keyword arguments.                         *)

\* Parameter names of __init__ (it declares no **kwargs).
InitParams ==
    {"config", "ft_is_angular", "ft_names", "time_encoding", "decoder", "lr", "loss",
     "l2", "l1", "circle_reg", "epochs", "steps_per_epoch", "lr_scheduler",
     "write_preds_to_dir"}

\* Defaults of the signature of __init__; config has none.
InitDefaults ==
    [ft_is_angular |-> <<FALSE, TRUE, TRUE, TRUE>>,
     ft_names |-> NoNames,
     time_encoding |-> "gaussian_fourier",
     decoder |-> "mlp",
     lr |-> 5,
     loss |-> StrLoss("smooth_l1"),
     l2 |-> 0,
     l1 |-> 0,
     circle_reg |-> 0,
     epochs |-> 1,
     steps_per_epoch |-> 250,
     lr_scheduler |-> None,
     write_preds_to_dir |-> None]

\* cls(**kw): Python binds the keywords to the signature before the body runs.
CallInit(kw, w) ==
    IF ~(DOMAIN kw \subseteq InitParams) \/ "config" \notin DOMAIN kw
    THEN Raise("TypeError")
    ELSE __init__(
            [k \in InitParams |-> IF k \in DOMAIN kw THEN kw[k] ELSE InitDefaults[k]], w)

\* LightningModule.load_from_checkpoint(checkpoint_path, **kw): keywords that
\* __init__ does not declare are dropped, then the stored weights replace the
\* freshly initialised ones.
load_from_checkpoint(state_dict, kw) ==
    LET kept == [k \in DOMAIN kw \cap InitParams |-> kw[k]]
        r == CallInit(kept, state_dict)
    IN  r

----------------------------------------------------------------------------
(* from_dir: checkpoint file names and their ordering.                     *)

\* A checkpoint base name is a sequence of "key=digits" fields, e.g.
\* epoch=10-step=7.ckpt is <<Field("epoch", <<1,0>>), Field("step", <<7>>)>>.
Field(k, ds) == [key |-> k, digits |-> ds]

\* re.findall(r"epoch=[0-9]+", name): the matching fields, left to right.
RECURSIVE findall_epoch(_)
findall_epoch(name) ==
    IF name = <<>> THEN <<>>
    ELSE (IF name[1].key = "epoch" /\ name[1].digits # <<>> THEN <<name[1]>> ELSE <<>>)
         \o findall_epoch(Tail(name))

\* int("...") of a decimal digit string
RECURSIVE int(_)
int(ds) == IF ds = <<>> THEN 0 ELSE 10 * int(SubSeq(ds, 1, Len(ds) - 1)) + ds[Len(ds)]

\* epoch_getter = lambda x: int(re.findall(...).pop().split("=")[-1]);
\* defined only when findall finds a match (pop of an empty list raises).
epoch_getter(x) == int(findall_epoch(x)[Len(findall_epoch(x))].digits)

HasEpoch(x) == findall_epoch(x) # <<>>

RECURSIVE LexLess(_, _)
LexLess(a, b) ==
    IF b = <<>> THEN FALSE
    ELSE IF a = <<>> THEN TRUE
    ELSE IF a[1] # b[1] THEN a[1] < b[1]
    ELSE LexLess(Tail(a), Tail(b))

LastDigits(x) == findall_epoch(x)[Len(findall_epoch(x))].digits

RECURSIVE InsertByText(_, _)
InsertByText(x, s) ==
    IF s = <<>> THEN <<x>>
    ELSE IF LexLess(LastDigits(x), LastDigits(s[Len(s)]))
         THEN InsertByText(x, SubSeq(s, 1, Len(s) - 1)) \o <<s[Len(s)]>>
         ELSE s \o <<x>>

\* Insert x behind every element whose key is not greater (sorted is stable).
RECURSIVE InsertByKey(_, _)
InsertByKey(x, s) ==
    IF s = <<>> THEN <<x>>
    ELSE IF epoch_getter(x) < epoch_getter(s[Len(s)])
         THEN InsertByKey(x, SubSeq(s, 1, Len(s) - 1)) \o <<s[Len(s)]>>
         ELSE s \o <<x>>

\* sorted(names, key=epoch_getter)
RECURSIVE sorted(_)
sorted(names) ==
    IF names = <<>> THEN <<>>
    ELSE InsertByKey(names[Len(names)], sorted(SubSeq(names, 1, Len(names) - 1)))

\* seq[idx] with Python's indexing; defined when InRange(seq, idx)
InRange(s, idx) == IF idx >= 0 THEN idx < Len(s) ELSE -idx <= Len(s)
PyIndex(s, idx) == IF idx >= 0 THEN s[idx + 1] ELSE s[Len(s) + idx + 1]

AnglesTableAllAngular ==
    [k \in {"canonical", "canonical-full-angles", "canonical-minimal-angles", "cart-coords"} |->
        CASE k = "canonical" -> <<TRUE, TRUE, TRUE, TRUE, TRUE, TRUE, TRUE, TRUE, TRUE>>
          [] k = "canonical-full-angles" -> <<TRUE, TRUE, TRUE, TRUE, TRUE, TRUE>>
          [] k = "canonical-minimal-angles" -> <<TRUE, TRUE, TRUE, TRUE>>
          [] k = "cart-coords" -> <<TRUE, TRUE, TRUE>>]

\* The lookup table of from_dir, keyed by angles_definitions.
AnglesTable ==
    [k \in {"canonical", "canonical-full-angles", "canonical-minimal-angles", "cart-coords"} |->
        CASE k = "canonical" -> <<FALSE, FALSE, FALSE, TRUE, TRUE, TRUE, TRUE, TRUE, TRUE>>
          [] k = "canonical-full-angles" -> <<TRUE, TRUE, TRUE, TRUE, TRUE, TRUE>>
          [] k = "canonical-minimal-angles" -> <<TRUE, TRUE, TRUE, TRUE>>
          [] k = "cart-coords" -> <<FALSE, FALSE, FALSE>>]

\* ft_is_angular: Optional[Sequence[bool]]
NoFlags == [given |-> FALSE, flags |-> <<>>]
Flags(fs) == [given |-> TRUE, flags |-> fs]

\* Keys read from training_args.json when model_args is assembled.
TrainArgsRead ==
    {"time_encoding", "decoder", "lr", "loss", "l2_norm", "l1_norm", "circle_reg",
     "min_epochs", "lr_scheduler"}

NoCkpt == <<>>
FromDirRaise(exc) == [raised |-> exc, self |-> NoModel, ckpt_name |-> NoCkpt, copied |-> {}]

\* BertForDiffusion.from_dir.  d is the directory: d.train_args (the parsed
\* training_args.json), d.config (config.json), d.glob[best_by] (the *.ckpt
\* base names in the order glob lists them), d.state_dict (the stored
\* weights).  kwargs are the caller's extra keywords, w what init_weights draws.
from_dir(d, ft_is_angular, load_weights, idx, best_by, copy_to, kwargs, w) ==
    LET train_args == d.train_args
        flags == IF ft_is_angular.given THEN ft_is_angular.flags
                 ELSE AnglesTable[train_args["angles_definitions"]]
        named == [k \in {"config", "ft_is_angular", "time_encoding", "decoder", "lr", "loss",
                         "l2", "l1", "circle_reg", "min_epochs", "lr_scheduler"} |->
                    CASE k = "config" -> d.config
                      [] k = "ft_is_angular" -> flags
                      [] k = "time_encoding" -> train_args["time_encoding"]
                      [] k = "decoder" -> train_args["decoder"]
                      [] k = "lr" -> train_args["lr"]
                      [] k = "loss" -> StrLoss(train_args["loss"])
                      [] k = "l2" -> train_args["l2_norm"]
                      [] k = "l1" -> train_args["l1_norm"]
                      [] k = "circle_reg" -> train_args["circle_reg"]
                      [] k = "min_epochs" -> train_args["min_epochs"]
                      [] k = "lr_scheduler" -> train_args["lr_scheduler"]]
        model_args == [k \in DOMAIN named \cup DOMAIN kwargs |->
                        IF k \in DOMAIN named THEN named[k] ELSE kwargs[k]]
        globbed == d.glob[best_by]
        ckpt_names == sorted(globbed)
        ckpt_name == PyIndex(ckpt_names, idx)
        built == IF load_weights THEN load_from_checkpoint(d.state_dict, model_args)
                 ELSE CallInit(model_args, w)
        files == {"training_args.json", "config.json"}
                 \cup (IF load_weights THEN {"checkpoint"} ELSE {})
    IN  IF ~ft_is_angular.given /\ "angles_definitions" \notin DOMAIN train_args
            THEN FromDirRaise("KeyError")
        ELSE IF ~ft_is_angular.given /\ train_args["angles_definitions"] \notin DOMAIN AnglesTable
            THEN FromDirRaise("KeyError")
        ELSE IF ~(TrainArgsRead \subseteq DOMAIN train_args) THEN FromDirRaise("KeyError")
        ELSE IF DOMAIN named \cap DOMAIN kwargs # {} THEN FromDirRaise("TypeError")
        ELSE IF load_weights /\ \E i \in 1..Len(globbed) : ~HasEpoch(globbed[i])
            THEN FromDirRaise("IndexError")
        ELSE IF load_weights /\ ~InRange(ckpt_names, idx) THEN FromDirRaise("IndexError")
        ELSE IF built.raised # NoError THEN FromDirRaise(built.raised)
        ELSE [raised |-> NoError,
              self |-> built.self,
              ckpt_name |-> IF load_weights THEN ckpt_name ELSE NoCkpt,
              copied |-> IF copy_to # "" THEN files ELSE {}]

----------------------------------------------------------------------------
(* configure_optimizers                                                    *)

AdamW(self) == [lr |-> self.learning_rate, weight_decay |-> self.l2_lambda]

NoScheduler == [scheduler |-> "none", interval |-> "none"]

SchedulerDefaulted(self) ==
    IF self.lr_scheduler = "LinearWarmup"
    THEN [raised |-> NoError,
          retval |-> [optimizer |-> AdamW(self),
                      lr_scheduler |-> [scheduler |-> "linear_schedule_with_warmup",
                                        interval |-> "epoch"]]]
    ELSE [raised |-> NoError,
          retval |-> [optimizer |-> AdamW(self),
                      lr_scheduler |-> [scheduler |-> "OneCycleLR", interval |-> "step"]]]

\* The if / elif / else over self.lr_scheduler, entered when the name is truthy.
SelectScheduler(self) ==
    IF self.lr_scheduler = "OneCycleLR"
    THEN [raised |-> NoError,
          retval |-> [optimizer |-> AdamW(self),
                      lr_scheduler |-> [scheduler |-> "OneCycleLR", interval |-> "step"]]]
    ELSE IF self.lr_scheduler = "LinearWarmup"
    THEN [raised |-> NoError,
          retval |-> [optimizer |-> AdamW(self),
                      lr_scheduler |-> [scheduler |-> "linear_schedule_with_warmup",
                                        interval |-> "epoch"]]]
    ELSE [raised |-> "ValueError", retval |-> NoValue]

configure_optimizers(self) ==
    IF Truthy(self.lr_scheduler)
    THEN SelectScheduler(self)
    ELSE [raised |-> NoError,
          retval |-> [optimizer |-> AdamW(self), lr_scheduler |-> NoScheduler]]

----------------------------------------------------------------------------
(* Inputs of the construction specification.                               *)

BoolSeqs(n) == UNION {[1..k -> BOOLEAN] : k \in 1..n}

Config(dec) == [is_decoder |-> dec, hidden_size |-> 4, max_position_embeddings |-> MaxSeqLen]

LossNames == {"l1", "smooth_l1", "radian_l1_smooth", "huber"}

LossArgs ==
    {StrLoss(n) : n \in LossNames}
    \cup {FnLoss("callable", <<"F.l1_loss">>)}
    \cup {FnLoss("list", fs) :
            fs \in UNION {[1..k -> {"F.l1_loss", "losses.radian_l1_loss"}] : k \in 1..MaxChannels}}
    \cup {FnLoss("tuple", [i \in 1..k |-> "F.l1_loss"]) : k \in 1..MaxChannels}

NameArgs == {NoNames} \cup {Names(DefaultFtNames(k)) : k \in 1..MaxChannels}

SchedulerNames == {None, "", "OneCycleLR", "LinearWarmup", "CosineAnnealing"}

CtorArgs ==
    [config : {Config(FALSE), Config(TRUE)},
     ft_is_angular : BoolSeqs(MaxChannels),
     ft_names : NameArgs,
     time_encoding : {"gaussian_fourier", "sinusoidal", "learned"},
     decoder : {"mlp", "linear", "conv"},
     lr : {5},
     loss : LossArgs,
     l2 : {0},
     l1 : {0, 1},
     circle_reg : {0},
     epochs : {1},
     steps_per_epoch : {250},
     lr_scheduler : SchedulerNames,
     write_preds_to_dir : {None}]

EmptyDict == [k \in {} |-> None]

Drop(r, k) == [x \in DOMAIN r \ {k} |-> r[x]]

E(ds) == <<Field("epoch", ds)>>

FullTrainArgs ==
    [angles_definitions : {"canonical", "canonical-full-angles", "canonical-minimal-angles",
                           "cart-coords", "dihedrals"},
     time_encoding : {"gaussian_fourier", "learned"},
     decoder : {"mlp"},
     lr : {5},
     loss : {"smooth_l1", "radian_l1_smooth"},
     l2_norm : {0, 1},
     l1_norm : {0},
     circle_reg : {0, 1},
     min_epochs : {10},
     lr_scheduler : {None, "LinearWarmup"}]

TrainArgsSet ==
    FullTrainArgs
    \cup {Drop(t, k) : t \in {x \in FullTrainArgs : x.l2_norm = 0 /\ x.circle_reg = 0},
                       k \in {"angles_definitions", "min_epochs"}}

Dirs ==
    [train_args : TrainArgsSet,
     config : {Config(FALSE)},
     glob : {[train |-> <<>>, valid |-> <<>>], [train |-> <<>>, valid |-> <<E(<<1>>)>>]},
     state_dict : {<<3, 3>>}]

----------------------------------------------------------------------------
(* The construction specification: building instances and asking them for  *)
(* their optimizer.                                                        *)

InitNew ==
    /\ op = "none"
    /\ args = NoValue
    /\ raised = NoError
    /\ retval = NoValue
    /\ model = NoModel
    /\ logged = NoLog
    /\ preds_dir = {}
    /\ val_writes = <<>>

\* One instance is built per behaviour, by the constructor or by from_dir.
Construct ==
    /\ op = "none"
    /\ \E a \in CtorArgs, w \in {<<1, -2>>} :
        LET r == __init__(a, w)
        IN  /\ op' = "__init__"
            /\ args' = a
            /\ raised' = r.raised
            /\ retval' = NoValue
            /\ model' = r.self
            /\ UNCHANGED <<logged, preds_dir, val_writes>>

FromDir ==
    /\ op = "none"
    /\ \E d \in Dirs, fl \in {NoFlags, Flags(<<FALSE, TRUE>>)}, lw \in BOOLEAN, idx \in {-1, 0},
       best_by \in {"train", "valid"}, copy_to \in {"", "out"},
       kwargs \in {EmptyDict, [k \in {"write_preds_to_dir"} |-> None]} :
        LET r == from_dir(d, fl, lw, idx, best_by, copy_to, kwargs, <<1, -2>>)
        IN  /\ op' = "from_dir"
            /\ args' = [d |-> d, ft_is_angular |-> fl, load_weights |-> lw, idx |-> idx,
                        best_by |-> best_by, copy_to |-> copy_to, kwargs |-> kwargs]
            /\ raised' = r.raised
            /\ retval' = [ckpt_name |-> r.ckpt_name, copied |-> r.copied]
            /\ model' = r.self
            /\ UNCHANGED <<logged, preds_dir, val_writes>>

ConfigureOptimizers ==
    /\ model.built
    /\ op # "configure_optimizers"
    /\ LET r == configure_optimizers(model)
       IN  /\ op' = "configure_optimizers"
           /\ raised' = r.raised
           /\ retval' = r.retval
           /\ UNCHANGED <<args, model, logged, preds_dir, val_writes>>

NextInit == Construct \/ FromDir \/ ConfigureOptimizers

SpecInit == InitNew /\ [][NextInit]_vars

----------------------------------------------------------------------------
(* Claims about construction.                                              *)

ValidCtorRest(a) ==
    /\ ~a.config.is_decoder
    /\ a.ft_names.given => Len(a.ft_names.names) = Len(a.ft_is_angular)
    /\ a.decoder \in {"linear", "mlp"}
    /\ a.time_encoding \in {"gaussian_fourier", "sinusoidal"}

\* C1: with a loss name in {"l1", "smooth_l1"}, __init__ builds one loss per
\* channel; channel i gets the angular table's entry exactly when
\* ft_is_angular[i] holds and the non-angular table's entry otherwise, so an
\* angular channel never gets a standard loss nor a non-angular channel an
\* angle-aware one.
C1_LossRouting ==
    (op = "__init__" /\ args.loss.kind = "str" /\ args.loss.name \in {"l1", "smooth_l1"}
        /\ ValidCtorRest(args))
    => /\ raised = NoError
       /\ model.loss_func.kind = "list"
       /\ Len(model.loss_func.fns) = Len(args.ft_is_angular)
       /\ \A i \in 1..Len(args.ft_is_angular) :
            LET fn == model.loss_func.fns[i]
            IN  IF args.ft_is_angular[i]
                THEN /\ fn = angular_loss_fn_dict[args.loss.name]
                     /\ fn \in AngleAwareLosses /\ fn \notin StandardLosses
                ELSE /\ fn = nonangular_loss_fn_dict[args.loss.name]
                     /\ fn \in StandardLosses /\ fn \notin AngleAwareLosses

C1_Witness ==
    /\ op = "__init__" /\ raised = NoError
    /\ args.loss = StrLoss("l1")
    /\ args.ft_is_angular = <<TRUE, FALSE>>
    /\ model.loss_func.fns = <<"losses.radian_l1_loss", "F.l1_loss">>

\* C5: an unknown decoder name, an unknown time-encoding name, a config with
\* is_decoder set and a feature-name list of the wrong length each make
\* __init__ raise and leave no instance; an unknown non-empty scheduler name
\* makes configure_optimizers raise and return nothing.
C5_InvalidConfigRejected ==
    /\ (op = "__init__" /\ ~ValidCtorRest(args)) => (raised # NoError /\ ~model.built)
    /\ (op = "configure_optimizers"
            /\ model.lr_scheduler \notin {None, "", "OneCycleLR", "LinearWarmup"})
       => (raised # NoError /\ retval = NoValue)

C5_Witness ==
    /\ op = "configure_optimizers"
    /\ model.lr_scheduler = "CosineAnnealing"
    /\ raised = "ValueError"

\* C9: constructing with loss "radian_l1_smooth" does not raise on account of
\* the name and yields exactly the per-channel loss list that "smooth_l1" yields.
C9_LegacyAlias ==
    (op = "__init__" /\ args.loss = StrLoss("radian_l1_smooth"))
    => LET r == __init__([args EXCEPT !.loss = StrLoss("smooth_l1")], <<1, -2>>)
       IN  /\ raised = r.raised
           /\ raised # "KeyError"
           /\ ValidCtorRest(args) => raised = NoError
           /\ raised = NoError =>
                /\ model.loss_func = r.self.loss_func
                /\ \A i \in 1..Len(args.ft_is_angular) :
                     model.loss_func.fns[i] =
                        IF args.ft_is_angular[i] THEN "partial(losses.radian_smooth_l1_loss)"
                                                 ELSE "F.smooth_l1_loss"

C9_Witness ==
    /\ op = "__init__" /\ raised = NoError
    /\ args.loss = StrLoss("radian_l1_smooth")
    /\ args.ft_is_angular = <<FALSE, TRUE>>
    /\ model.loss_func.fns = <<"F.smooth_l1_loss", "partial(losses.radian_smooth_l1_loss)">>

\* C8: from_dir with load_weights=False, on a directory whose
\* training_args.json holds every required key and that has no checkpoint
\* file, returns an instance carrying the recorded settings.
C8_FromDirWithoutWeights ==
    (op = "from_dir" /\ ~args.load_weights
        /\ (TrainArgsRead \cup {"angles_definitions"}) \subseteq DOMAIN args.d.train_args
        /\ args.d.train_args.angles_definitions \in DOMAIN AnglesTable
        /\ args.d.train_args.time_encoding \in {"gaussian_fourier", "sinusoidal"}
        /\ args.d.glob = [train |-> <<>>, valid |-> <<>>]
        /\ args.kwargs = EmptyDict)
    => /\ raised = NoError
       /\ model.built
       /\ model.time_embed = args.d.train_args.time_encoding
       /\ model.token_decoder = args.d.train_args.decoder
       /\ model.learning_rate = args.d.train_args.lr
       /\ model.l2_lambda = args.d.train_args.l2_norm
       /\ model.l1_lambda = args.d.train_args.l1_norm
       /\ model.circle_lambda = args.d.train_args.circle_reg
       /\ model.lr_scheduler = args.d.train_args.lr_scheduler

\* The flags of a scheme: n channels of which the first k are not angles
SchemeFlags(scheme) ==
    LET n == CASE scheme = "canonical" -> 9 [] scheme = "canonical-full-angles" -> 6
               [] scheme = "canonical-minimal-angles" -> 4 [] scheme = "cart-coords" -> 3
        k == CASE scheme = "canonical" -> 3 [] scheme = "canonical-full-angles" -> 0
               [] scheme = "canonical-minimal-angles" -> 0 [] scheme = "cart-coords" -> 3
    IN  [i \in 1..n |-> i > k]

\* The instance has one channel per flag, angle-aware exactly where flagged
BuiltWithFlags(self, flags) ==
    /\ self.built
    /\ self.n_inputs = Len(flags)
    /\ Len(self.loss_func.fns) = Len(flags)
    /\ \A i \in 1..Len(flags) : (self.loss_func.fns[i] \in AngleAwareLosses) <=> flags[i]

\* C15: from_dir called without ft_is_angular takes the flags of the
\* angles_definitions scheme of training_args.json from the fixed table
\* (canonical: 3 non-angular then 6 angular; canonical-full-angles: 6
\* angular; canonical-minimal-angles: 4 angular; cart-coords: 3 non-angular),
\* and a scheme outside the table raises with no model built and no checkpoint
\* chosen; called with ft_is_angular it uses those flags, whatever the scheme.
C15_AngularFlags ==
    op = "from_dir"
    => LET ta == args.d.train_args
           given == args.ft_is_angular.given
           schemes == {"canonical", "canonical-full-angles", "canonical-minimal-angles",
                       "cart-coords"}
       IN  /\ (~given /\ "angles_definitions" \in DOMAIN ta /\ ta.angles_definitions \notin schemes)
                => raised = "KeyError" /\ ~model.built /\ retval.ckpt_name = NoCkpt
           /\ (~given /\ raised = NoError)
                => BuiltWithFlags(model, SchemeFlags(ta.angles_definitions))
           /\ (given /\ raised = NoError) => BuiltWithFlags(model, args.ft_is_angular.flags)
           /\ (given /\ "angles_definitions" \in DOMAIN ta)
                => \A s \in schemes \cup {"dihedrals"} :
                     LET r == from_dir([args.d EXCEPT !.train_args.angles_definitions = s],
                                       args.ft_is_angular, args.load_weights, args.idx,
                                       args.best_by, args.copy_to, args.kwargs, <<1, -2>>)
                     IN  r.raised = raised /\ r.self = model
           /\ (given /\ TrainArgsRead \subseteq DOMAIN ta) => raised # "KeyError"

C15_Witness ==
    /\ op = "from_dir" /\ raised = NoError
    /\ ~args.ft_is_angular.given
    /\ args.d.train_args.angles_definitions = "canonical"
    /\ model.n_inputs = 9
    /\ model.loss_func.fns[3] \in StandardLosses
    /\ model.loss_func.fns[4] \in AngleAwareLosses

C15_WitnessUnknownScheme ==
    /\ op = "from_dir" /\ raised = "KeyError"
    /\ ~args.ft_is_angular.given /\ args.load_weights
    /\ "angles_definitions" \in DOMAIN args.d.train_args
    /\ args.d.train_args.angles_definitions = "dihedrals"
    /\ args.d.glob[args.best_by] # <<>>

----------------------------------------------------------------------------
(* The checkpoint-selection specification: from_dir with load_weights=True *)
(* over folders of checkpoint files listed by glob in any order.           *)

\* epoch=1.ckpt, epoch=3.ckpt, epoch=10.ckpt, epoch=2-step=12.ckpt,
\* last.ckpt, epoch=9-epoch=2.ckpt
CkptUniverse ==
    {E(<<1>>), E(<<3>>), E(<<1, 0>>),
     <<Field("epoch", <<2>>), Field("step", <<1, 2>>)>>,
     <<Field("last", <<>>)>>,
     <<Field("epoch", <<9>>), Field("epoch", <<2>>)>>}

\* The orders in which glob may list a folder of at most MaxCkpts files.
GlobLists ==
    UNION {{f \in [1..k -> CkptUniverse] : \A i, j \in 1..k : i # j => f[i] # f[j]} :
            k \in 0..MaxCkpts}

GoodTrainArgs ==
    [angles_definitions |-> "canonical-minimal-angles", time_encoding |-> "gaussian_fourier",
     decoder |-> "mlp", lr |-> 5, loss |-> "smooth_l1", l2_norm |-> 0, l1_norm |-> 0,
     circle_reg |-> 0, min_epochs |-> 10, lr_scheduler |-> None]

FromDirCkpt ==
    /\ op = "none"
    /\ \E g \in GlobLists, idx \in (-(MaxCkpts + 1))..MaxCkpts, best_by \in {"train", "valid"} :
        LET other == IF best_by = "train" THEN "valid" ELSE "train"
            d == [train_args |-> GoodTrainArgs,
                  config |-> Config(FALSE),
                  glob |-> [k \in {"train", "valid"} |-> IF k = best_by THEN g ELSE <<E(<<7>>)>>],
                  state_dict |-> <<3, 3>>]
            r == from_dir(d, NoFlags, TRUE, idx, best_by, "", EmptyDict, <<1, -2>>)
        IN  /\ op' = "from_dir"
            /\ args' = [d |-> d, ft_is_angular |-> NoFlags, load_weights |-> TRUE, idx |-> idx,
                        best_by |-> best_by, copy_to |-> "", kwargs |-> EmptyDict]
            /\ raised' = r.raised
            /\ retval' = [ckpt_name |-> r.ckpt_name, copied |-> r.copied]
            /\ model' = r.self
            /\ UNCHANGED <<logged, preds_dir, val_writes>>

NextCkpt == FromDirCkpt

SpecCkpt == InitNew /\ [][NextCkpt]_vars

\* The epoch number a file name carries, read off the name's last epoch field.
EpochIn(name) ==
    LET fs == {i \in 1..Len(name) : name[i].key = "epoch" /\ name[i].digits # <<>>}
        last == CHOOSE i \in fs : \A j \in fs : j <= i
        ds == name[last].digits
    IN  IF Len(ds) = 1 THEN ds[1] ELSE 10 * ds[1] + ds[2]

\* C7: from_dir with load_weights=True loads the file at position idx
\* (negative idx counting from the end) of the files of
\* models/best_by_<best_by>/ ordered ascending by their integer epoch number;
\* epochs 3, 10, 1 order as 1, 3, 10; idx = -1 loads a file of the largest epoch.
C7_CheckpointSelection ==
    (op = "from_dir" /\ args.load_weights /\ raised = NoError)
    => LET files == Range(args.d.glob[args.best_by])
           n == Cardinality(files)
           pos == IF args.idx >= 0 THEN args.idx ELSE n + args.idx
           e == EpochIn(retval.ckpt_name)
       IN  /\ retval.ckpt_name \in files
           /\ Cardinality({f \in files : EpochIn(f) < e}) <= pos
           /\ pos < Cardinality({f \in files : EpochIn(f) <= e})
           /\ args.idx = -1 => \A f \in files : EpochIn(f) <= e
           /\ args.d.glob[args.best_by] = <<E(<<3>>), E(<<1, 0>>), E(<<1>>)>>
                => retval.ckpt_name =
                     CASE pos = 0 -> E(<<1>>) [] pos = 1 -> E(<<3>>) [] pos = 2 -> E(<<1, 0>>)

C7_Witness ==
    /\ op = "from_dir" /\ raised = NoError
    /\ args.d.glob[args.best_by] = <<E(<<3>>), E(<<1, 0>>), E(<<1>>)>>
    /\ args.idx = -1
    /\ retval.ckpt_name = E(<<1, 0>>)

----------------------------------------------------------------------------
(* Tensor shapes.  A shape is the sequence of a tensor's dimension sizes.  *)

ShapeOk(shape) == [raised |-> NoError, shape |-> shape]
ShapeErr(exc) == [raised |-> exc, shape |-> <<>>]

\* Tensor.squeeze(): every dimension of size 1 is removed.
squeeze(shape) == SelectSeq(shape, LAMBDA n : n # 1)

\* Tensor.squeeze(dim=-1): the last dimension is removed when its size is 1.
squeeze_last(shape) ==
    IF shape # <<>> /\ shape[Len(shape)] = 1 THEN SubSeq(shape, 1, Len(shape) - 1) ELSE shape

\* Tensor.unsqueeze(dim) for 0 <= dim <= rank
unsqueeze(shape, dim) == SubSeq(shape, 1, dim) \o <<1>> \o SubSeq(shape, dim + 1, Len(shape))

\* x[:, None], defined for rank >= 1 (a rank-0 tensor cannot be sliced)
SliceNone(shape) == <<shape[1], 1>> \o Tail(shape)

\* Broadcasting of two shapes, aligned at their last dimensions.
PadLeft(shape, n) == [i \in 1..n |-> IF i <= n - Len(shape) THEN 1 ELSE shape[i - (n - Len(shape))]]
Max(a, b) == IF a >= b THEN a ELSE b
Broadcastable(s1, s2) ==
    LET n == Max(Len(s1), Len(s2))
    IN  \A i \in 1..n : PadLeft(s1, n)[i] = PadLeft(s2, n)[i]
                        \/ PadLeft(s1, n)[i] = 1 \/ PadLeft(s2, n)[i] = 1
Broadcast(s1, s2) ==
    LET n == Max(Len(s1), Len(s2))
    IN  [i \in 1..n |-> IF PadLeft(s1, n)[i] = 1 THEN PadLeft(s2, n)[i] ELSE PadLeft(s1, n)[i]]

\* torch.cat([a, a'], dim=-1) of two tensors of one shape
CatLast(shape) == [shape EXCEPT ![Len(shape)] = 2 * shape[Len(shape)]]

\* GaussianFourierProjection(embed_dim).forward(x), on shapes
GaussianFourierProjection_forward(embed_dim, x) ==
    LET x1 == IF Len(x) > 1 THEN squeeze(x)
              ELSE IF Len(x) < 1 THEN unsqueeze(x, 0)
              ELSE x
        W == <<embed_dim \div 2>>
    IN  IF Len(x1) < 1 THEN ShapeErr("IndexError")
        ELSE IF ~Broadcastable(SliceNone(x1), unsqueeze(W, 0)) THEN ShapeErr("RuntimeError")
        ELSE ShapeOk(CatLast(Broadcast(SliceNone(x1), unsqueeze(W, 0))))

\* SinusoidalPositionEmbeddings(dim).forward(time), on shapes
SinusoidalPositionEmbeddings_forward(dim, time) ==
    LET half_dim == dim \div 2
        embeddings == <<half_dim>>
    IN  IF half_dim - 1 = 0 THEN ShapeErr("ZeroDivisionError")
        ELSE IF Len(time) < 1 THEN ShapeErr("IndexError")
        ELSE IF ~Broadcastable(SliceNone(time), unsqueeze(embeddings, 0))
            THEN ShapeErr("RuntimeError")
        ELSE ShapeOk(CatLast(Broadcast(SliceNone(time), unsqueeze(embeddings, 0))))

\* self.time_embed(x)
time_embed(self, x) ==
    IF self.time_embed = "gaussian_fourier"
    THEN GaussianFourierProjection_forward(self.config.hidden_size, x)
    ELSE SinusoidalPositionEmbeddings_forward(self.config.hidden_size, x)

\* position_ids: Optional[torch.Tensor]
NoTensor == [given |-> FALSE, shape |-> <<>>, dtype |-> "none"]
Tensor(shape, dtype) == [given |-> TRUE, shape |-> shape, dtype |-> dtype]

\* BertEmbeddings.forward: the embedding lookup needs integer indices below
\* max_position_embeddings; the result is added in place to input_embeds.
BertEmbeddings_forward(self, input_embeds, position_ids) ==
    LET looked == position_ids.shape \o <<self.config.hidden_size>>
    IN  IF position_ids.dtype # "long" THEN ShapeErr("RuntimeError")
        ELSE IF position_ids.shape[Len(position_ids.shape)] > self.config.max_position_embeddings
            THEN ShapeErr("IndexError")
        ELSE IF ~Broadcastable(input_embeds, looked) \/ Broadcast(input_embeds, looked) # input_embeds
            THEN ShapeErr("RuntimeError")
        ELSE ShapeOk(input_embeds)

\* self.token_decoder(x): nn.Linear, or AnglesPredictor (dense, activation,
\* layer norm, dense); both map the last dimension to n_inputs.
token_decoder(self, x) ==
    IF self.token_decoder = "linear"
    THEN SubSeq(x, 1, Len(x) - 1) \o <<self.n_inputs>>
    ELSE SubSeq(SubSeq(x, 1, Len(x) - 1) \o <<self.config.hidden_size>>, 1, Len(x) - 1)
         \o <<self.n_inputs>>

\* BertForDiffusion.forward(inputs, timestep, attention_mask, position_ids),
\* on shapes and dtypes; the encoder stack and both decoder heads keep
\* (batch, seq_len) and map the last dimension hidden_size -> n_inputs.
forward(self, inputs, timestep, attention_mask, position_ids) ==
    LET batch_size == inputs[1]
        seq_length == inputs[2]
        pos == IF position_ids.given THEN position_ids
               ELSE Tensor(<<batch_size, seq_length>>, timestep.dtype)
        inputs_upscaled == SubSeq(inputs, 1, Len(inputs) - 1) \o <<self.config.hidden_size>>
        embedded == BertEmbeddings_forward(self, inputs_upscaled, pos)
        encoded == time_embed(self, squeeze_last(timestep.shape))
        time_encoded == unsqueeze(encoded.shape, 1)
        inputs_with_time == Broadcast(embedded.shape, time_encoded)
    IN  IF Len(inputs) < 2 THEN ShapeErr("ValueError")
        ELSE IF ~attention_mask.given THEN ShapeErr("AssertionError")
        ELSE IF Len(attention_mask.shape) # 2 THEN ShapeErr("AssertionError")
        ELSE IF Len(inputs) # 3 THEN ShapeErr("AssertionError")
        ELSE IF inputs[3] # self.n_inputs THEN ShapeErr("RuntimeError")
        ELSE IF embedded.raised # NoError THEN embedded
        ELSE IF encoded.raised # NoError THEN encoded
        ELSE IF ~Broadcastable(embedded.shape, time_encoded) THEN ShapeErr("RuntimeError")
        ELSE IF inputs_with_time[Len(inputs_with_time)] # self.config.hidden_size
                \/ Len(inputs_with_time) # 3
                \/ ~Broadcastable(<<attention_mask.shape[1], 1, 1, attention_mask.shape[2]>>,
                                  <<inputs_with_time[1], 1, inputs_with_time[2], inputs_with_time[2]>>)
            THEN ShapeErr("RuntimeError")
        ELSE ShapeOk(token_decoder(self, inputs_with_time))

----------------------------------------------------------------------------
(* The shape specification: one instance, called with inputs of every      *)
(* admissible shape.                                                       *)

ShapeConfig(h) == [is_decoder |-> FALSE, hidden_size |-> h, max_position_embeddings |-> MaxSeqLen]

ShapeCtorArgs ==
    {[InitDefaults EXCEPT !.ft_is_angular = fl, !.time_encoding = te, !.decoder = dec]
        @@ [config |-> ShapeConfig(h)] :
        fl \in {[i \in 1..k |-> TRUE] : k \in 1..MaxChannels},
        te \in {"gaussian_fourier", "sinusoidal"},
        dec \in {"linear", "mlp"},
        h \in 2..MaxHidden}

InitShape ==
    /\ op = "none"
    /\ args = NoValue
    /\ raised = NoError
    /\ retval = NoValue
    /\ model \in {__init__(a, <<1, -2>>).self : a \in ShapeCtorArgs}
    /\ logged = NoLog
    /\ preds_dir = {}
    /\ val_writes = <<>>

\* forward on a (B, L, C) batch with its (B, L) mask, a timestep of shape
\* (B,) or (B, 1), and position ids either given or left to forward.
Forward ==
    \E B \in 1..MaxBatch, L \in 1..MaxSeqLen, col \in BOOLEAN,
       dtype \in {"long", "float"}, given \in BOOLEAN :
        LET inputs == <<B, L, model.n_inputs>>
            timestep == Tensor(IF col THEN <<B, 1>> ELSE <<B>>, dtype)
            attention_mask == Tensor(<<B, L>>, "bool")
            position_ids == IF given THEN Tensor(<<B, L>>, "long") ELSE NoTensor
            r == forward(model, inputs, timestep, attention_mask, position_ids)
        IN  /\ op' = "forward"
            /\ args' = [inputs |-> inputs, timestep |-> timestep,
                        attention_mask |-> attention_mask, position_ids |-> position_ids]
            /\ raised' = r.raised
            /\ retval' = r.shape
            /\ UNCHANGED <<model, logged, preds_dir, val_writes>>

\* The time encoder called on its own, on a scalar, a vector, or a tensor
\* with trailing singleton dimensions.
TimeEmbed ==
    \E B \in 1..MaxBatch, rank \in 0..3 :
        LET x == IF rank = 0 THEN <<>> ELSE <<B>> \o [i \in 1..(rank - 1) |-> 1]
            r == time_embed(model, x)
        IN  /\ rank = 0 => B = 1
            /\ op' = "time_embed"
            /\ args' = [x |-> x]
            /\ raised' = r.raised
            /\ retval' = r.shape
            /\ UNCHANGED <<model, logged, preds_dir, val_writes>>

NextShape == Forward \/ TimeEmbed

SpecShape == InitShape /\ [][NextShape]_vars

\* C3: forward returns a tensor of exactly the shape (B, L, C) of its input
\* features, for either decoder, either time encoding and a timestep of shape
\* (B,) or (B, 1).  Stated for the inputs the training loop supplies (hidden
\* size 4, integer timesteps, explicit position ids), where nothing but the
\* timestep's shape varies.
C3_ForwardShape ==
    (op = "forward" /\ model.config.hidden_size = 4 /\ args.timestep.dtype = "long"
        /\ args.position_ids.given)
    => (raised = NoError /\ retval = args.inputs)

\* C4: both time encoders return an embedding of shape (B, H) for an input of
\* shape (B,), for an input with trailing singleton dimensions such as (B, 1),
\* and for a rank-0 scalar (B = 1).  Stated for H = 4, where H \div 2 * 2 = H.
C4_TimeEncoderShape ==
    (op = "time_embed" /\ model.config.hidden_size = 4)
    => LET B == IF args.x = <<>> THEN 1 ELSE args.x[1]
       IN  raised = NoError /\ retval = <<B, model.config.hidden_size>>

----------------------------------------------------------------------------
(* Loss composition.  Noise values lie on an integer grid; an angular      *)
(* channel's grid step is pi/2, so PiUnits steps make pi.  A loss value is *)
(* the mean of per-element terms, kept as [sum, n] (n = 0 is the NaN of an *)
(* empty mean); per-element terms are scaled by LossScale to stay integer. *)

PiUnits == 2
LossScale == 10

Mean(terms) == [sum |-> SumSeq(terms), n |-> Len(terms)]

\* F.l1_loss(input, target): mean |input - target|
F_l1_loss(input, target) ==
    Mean([j \in 1..Len(input) |-> LossScale * Abs(input[j] - target[j])])

\* F.smooth_l1_loss(input, target), beta = 1: 0.5 d^2 below beta, |d| - 0.5 from it on
F_smooth_l1_loss(input, target) ==
    Mean([j \in 1..Len(input) |->
            IF input[j] = target[j] THEN 0
            ELSE LossScale * Abs(input[j] - target[j]) - LossScale \div 2])

\* The difference of two angles wrapped into [-pi, pi)
WrapAngle(d) == ((d + PiUnits) % (2 * PiUnits)) - PiUnits

\* losses.radian_l1_loss(input, target): mean of the wrapped absolute difference
radian_l1_loss(input, target) ==
    Mean([j \in 1..Len(input) |-> LossScale * Abs(WrapAngle(target[j] - input[j]))])

\* losses.radian_smooth_l1_loss(input, target, beta=pi/10, circle_penalty):
\* the smooth loss of the wrapped difference, plus circle_penalty times the
\* mean number of half turns of the input when the penalty is positive.
radian_smooth_l1_loss(input, target, circle_penalty) ==
    LET base == [j \in 1..Len(input) |->
                    IF WrapAngle(target[j] - input[j]) = 0 THEN 0
                    ELSE LossScale * Abs(WrapAngle(target[j] - input[j])) - 1]
        turns == [j \in 1..Len(input) |-> LossScale * (Abs(input[j]) \div PiUnits)]
    IN  IF circle_penalty > 0
        THEN [sum |-> SumSeq(base) + circle_penalty * SumSeq(turns), n |-> Len(input)]
        ELSE Mean(base)

\* A loss a caller may hand to __init__ instead of a name:
\*   def l1_with_penalty(input, target, circle_penalty=0.0):
\*       return F.l1_loss(input, target) + circle_penalty
l1_with_penalty(input, target, circle_penalty) ==
    [sum |-> F_l1_loss(input, target).sum + circle_penalty * LossScale * Len(input),
     n |-> Len(input)]

\* inspect.getfullargspec(loss_fn): the positional and the keyword-only
\* parameter names of a callable.  functools.partial(f, beta=...) turns beta
\* and every parameter after it into keyword-only ones.
getfullargspec(loss_fn) ==
    CASE loss_fn = "F.l1_loss" ->
            [args |-> <<"input", "target", "size_average", "reduce", "reduction">>,
             kwonlyargs |-> <<>>]
      [] loss_fn = "F.smooth_l1_loss" ->
            [args |-> <<"input", "target", "size_average", "reduce", "reduction", "beta">>,
             kwonlyargs |-> <<>>]
      [] loss_fn = "losses.radian_l1_loss" ->
            [args |-> <<"input", "target">>, kwonlyargs |-> <<>>]
      [] loss_fn = "partial(losses.radian_smooth_l1_loss)" ->
            [args |-> <<"input", "target">>, kwonlyargs |-> <<"beta", "circle_penalty">>]
      [] loss_fn = "l1_with_penalty" ->
            [args |-> <<"input", "target", "circle_penalty">>, kwonlyargs |-> <<>>]

AcceptsPositional(loss_fn) ==
    "circle_penalty" \in Range(getfullargspec(loss_fn).args)

\* Does the callable declare circle_penalty, positionally or keyword-only?
AcceptsCirclePenalty(loss_fn) ==
    LET loss_args == getfullargspec(loss_fn)
    IN  \/ "circle_penalty" \in Range(loss_args.args)
        \/ "circle_penalty" \in Range(loss_args.kwonlyargs)

\* loss_fn(input, target) and loss_fn(input, target, circle_penalty=...)
CallLoss(loss_fn, input, target) ==
    CASE loss_fn = "F.l1_loss" -> F_l1_loss(input, target)
      [] loss_fn = "F.smooth_l1_loss" -> F_smooth_l1_loss(input, target)
      [] loss_fn = "losses.radian_l1_loss" -> radian_l1_loss(input, target)
      [] loss_fn = "partial(losses.radian_smooth_l1_loss)" ->
            radian_smooth_l1_loss(input, target, 0)
      [] loss_fn = "l1_with_penalty" -> l1_with_penalty(input, target, 0)

CallLossWithPenalty(loss_fn, input, target, circle_penalty) ==
    CASE loss_fn = "partial(losses.radian_smooth_l1_loss)" ->
            radian_smooth_l1_loss(input, target, circle_penalty)
      [] loss_fn = "l1_with_penalty" -> l1_with_penalty(input, target, circle_penalty)

\* The (batch, position) pairs of a (B, L) tensor in row-major order
Positions(B, L) == [j \in 1..(B * L) |-> <<((j - 1) \div L) + 1, ((j - 1) % L) + 1>>]

BatchSize(t) == Len(t)
SeqLength(t) == Len(t[1])

where_all(attn_mask) == Positions(BatchSize(attn_mask), SeqLength(attn_mask))

\* torch.where(attn_mask): the coordinates of the true entries, row-major
where(attn_mask) ==
    SelectSeq(Positions(BatchSize(attn_mask), SeqLength(attn_mask)),
              LAMBDA p : attn_mask[p[1]][p[2]])

\* tensor[unmask_idx[0], unmask_idx[1], i]
Gather(tensor, unmask_idx, i) ==
    [j \in 1..Len(unmask_idx) |-> tensor[unmask_idx[j][1]][unmask_idx[j][2]][i]]

NumChannels(t) == Len(t[1][1])

\* The loop body of _get_loss_terms for channel i
ChannelLoss(self, batch, unmask_idx, i) ==
    LET loss_fn == IF self.loss_func.kind = "list" THEN self.loss_func.fns[i]
                   ELSE self.loss_func.fns[1]
        input == Gather(batch.predicted_noise, unmask_idx, i)
        target == Gather(batch.known_noise, unmask_idx, i)
    IN  IF AcceptsCirclePenalty(loss_fn)
        THEN CallLossWithPenalty(loss_fn, input, target, self.circle_lambda)
        ELSE CallLoss(loss_fn, input, target)

\* BertForDiffusion._get_loss_terms(batch, write_preds).  batch.predicted_noise
\* is what self.forward returns for the batch; io is what the file system does
\* to the prediction dump ("ok", "open_fails" or "dump_fails").
\* Returns the exception or the stacked losses, and the dump's fate.
_get_loss_terms(self, batch, write_preds, io) ==
    LET unmask_idx == where(batch.attn_mask)
        loss_terms == [i \in 1..NumChannels(batch.known_noise) |->
                        ChannelLoss(self, batch, unmask_idx, i)]
        dump == [known_noise |-> batch.known_noise,
                 predicted_noise |-> batch.predicted_noise,
                 attn_mask |-> batch.attn_mask,
                 losses |-> loss_terms]
    IN  IF NumChannels(batch.predicted_noise) # self.n_inputs
            THEN [raised |-> "RuntimeError", loss_terms |-> <<>>, created |-> FALSE, dump |-> NoValue]
        ELSE IF self.loss_func.kind = "tuple"
            THEN [raised |-> "TypeError", loss_terms |-> <<>>, created |-> FALSE, dump |-> NoValue]
        ELSE IF write_preds # None /\ io = "open_fails"
            THEN [raised |-> "OSError", loss_terms |-> <<>>, created |-> FALSE, dump |-> NoValue]
        ELSE IF write_preds # None /\ io = "dump_fails"
            THEN [raised |-> "OSError", loss_terms |-> <<>>, created |-> TRUE, dump |-> NoValue]
        ELSE [raised |-> NoError, loss_terms |-> loss_terms,
              created |-> write_preds # None,
              dump |-> IF write_preds # None THEN dump ELSE NoValue]

----------------------------------------------------------------------------
(* The loss specification: _get_loss_terms on batches of every mask.       *)

\* Channels alternate non-angular, angular, ...
AlternatingFlags(n) == [i \in 1..n |-> i % 2 = 0]

LossCtorArgs ==
    {[InitDefaults EXCEPT !.ft_is_angular = AlternatingFlags(k), !.loss = StrLoss(nm),
                          !.circle_reg = cr]
        @@ [config |-> Config(FALSE)] :
        k \in 1..MaxChannels, nm \in {"l1", "smooth_l1"}, cr \in {0, 1}}

InitLoss ==
    /\ op = "none"
    /\ args = NoValue
    /\ raised = NoError
    /\ retval = NoValue
    /\ model \in {__init__(a, <<1, -2>>).self : a \in LossCtorArgs}
    /\ logged = NoLog
    /\ preds_dir = {}
    /\ val_writes = <<>>

\* Noise tensors whose entries differ from position to position
NoisePattern(k, B, L, C) ==
    [b \in 1..B |-> [l \in 1..L |-> [c \in 1..C |->
        CASE k = 1 -> (b + 2 * l + c) % 3
          [] k = 2 -> ((b * l + c) % 4) - 1
          [] k = 3 -> (b + l) % 2]]]

Masks(B, L) == [1..B -> [1..L -> BOOLEAN]]

\* The padding masks of B sequences of L positions: each sequence is valid up
\* to its own length
PaddingMasks(B, L) ==
    {[b \in 1..B |-> [l \in 1..L |-> l <= len[b]]] : len \in [1..B -> 0..L]}

GetLossTerms ==
    /\ op = "none"
    /\ \E B \in 1..MaxBatch, L \in 1..MaxSeqLen, k \in {1, 2} :
       \E attn_mask \in Masks(B, L) :
        LET batch == [known_noise |-> NoisePattern(3, B, L, model.n_inputs),
                      predicted_noise |-> NoisePattern(k, B, L, model.n_inputs),
                      attn_mask |-> attn_mask]
            r == _get_loss_terms(model, batch, None, "ok")
        IN  /\ op' = "_get_loss_terms"
            /\ args' = batch
            /\ raised' = r.raised
            /\ retval' = r.loss_terms
            /\ UNCHANGED <<model, logged, preds_dir, val_writes>>

NextLoss == GetLossTerms

SpecLoss == InitLoss /\ [][NextLoss]_vars

\* The loss of channel i over every (batch, position) entry, mask ignored
UnmaskedLoss(self, batch, i) ==
    LET all == Positions(BatchSize(batch.attn_mask), SeqLength(batch.attn_mask))
        input == [j \in 1..Len(all) |-> batch.predicted_noise[all[j][1]][all[j][2]][i]]
        target == [j \in 1..Len(all) |-> batch.known_noise[all[j][1]][all[j][2]][i]]
        fn == self.loss_func.fns[i]
    IN  IF fn = "partial(losses.radian_smooth_l1_loss)"
        THEN radian_smooth_l1_loss(input, target, self.circle_lambda)
        ELSE CallLoss(fn, input, target)

\* C2: each channel's loss is computed from the entries where the mask is
\* true only: another predicted or known value at a masked-out position
\* leaves every loss unchanged, each loss averages exactly as many elements
\* as the mask has true entries (a sequence masked out whole adds none), and
\* under a fully valid mask it is the loss over all B*L entries.
C2_MaskedLoss ==
    op = "_get_loss_terms"
    => LET B == BatchSize(args.attn_mask)
           L == SeqLength(args.attn_mask)
           valid == {p \in (1..B) \X (1..L) : args.attn_mask[p[1]][p[2]]}
       IN  /\ raised = NoError
           /\ Len(retval) = model.n_inputs
           /\ \A p \in ((1..B) \X (1..L)) \ valid : \A c \in 1..model.n_inputs : \A v \in {6, 7} :
                /\ _get_loss_terms(model,
                        [args EXCEPT !.predicted_noise[p[1]][p[2]][c] = v], None, "ok").loss_terms
                   = retval
                /\ _get_loss_terms(model,
                        [args EXCEPT !.known_noise[p[1]][p[2]][c] = v], None, "ok").loss_terms
                   = retval
           /\ \A c \in 1..model.n_inputs : retval[c].n = Cardinality(valid)
           /\ Cardinality(valid) = B * L
                => \A c \in 1..model.n_inputs : retval[c] = UnmaskedLoss(model, args, c)

C2_Witness ==
    /\ op = "_get_loss_terms" /\ raised = NoError
    /\ args.attn_mask = <<<<FALSE, FALSE>>, <<TRUE, FALSE>>>>
    /\ model.n_inputs = 2
    /\ retval[1].n = 1 /\ retval[2].n = 1

----------------------------------------------------------------------------
(* The caller's-loss specification: _get_loss_terms on instances built     *)
(* with a loss given as a callable, a list or a tuple of callables.        *)

LossCallables == {"F.l1_loss", "partial(losses.radian_smooth_l1_loss)", "l1_with_penalty"}

\* One callable, or a list or a tuple of one to MaxChannels callables
GivenLosses ==
    {FnLoss("callable", <<f>>) : f \in LossCallables}
    \cup {FnLoss(kind, fs) : kind \in {"list", "tuple"},
                             fs \in UNION {[1..k -> LossCallables] : k \in 1..MaxChannels}}

GivenLossCtorArgs ==
    {[InitDefaults EXCEPT !.ft_is_angular = AlternatingFlags(k), !.loss = loss,
                          !.circle_reg = cr]
        @@ [config |-> Config(FALSE)] :
        k \in 1..MaxChannels, loss \in GivenLosses \cup {StrLoss("smooth_l1")}, cr \in {0, 1}}

\* The instances whose construction succeeded
InitGivenLoss ==
    /\ op = "none"
    /\ args = NoValue
    /\ raised = NoError
    /\ retval = NoValue
    /\ model \in {r.self : r \in {x \in {__init__(a, <<1, -2>>) : a \in GivenLossCtorArgs} :
                                    x.raised = NoError}}
    /\ logged = NoLog
    /\ preds_dir = {}
    /\ val_writes = <<>>

GetLossTermsGiven ==
    /\ op = "none"
    /\ \E B \in 1..MaxBatch, L \in 1..MaxSeqLen :
       \E attn_mask \in PaddingMasks(B, L) :
        LET batch == [known_noise |-> NoisePattern(3, B, L, model.n_inputs),
                      predicted_noise |-> NoisePattern(1, B, L, model.n_inputs),
                      attn_mask |-> attn_mask]
            r == _get_loss_terms(model, batch, None, "ok")
        IN  /\ op' = "_get_loss_terms"
            /\ args' = batch
            /\ raised' = r.raised
            /\ retval' = r.loss_terms
            /\ UNCHANGED <<model, logged, preds_dir, val_writes>>

NextGivenLoss == GetLossTermsGiven

SpecGivenLoss == InitGivenLoss /\ [][NextGivenLoss]_vars

\* The callables that declare a circle_penalty parameter
DeclareCirclePenalty == {"partial(losses.radian_smooth_l1_loss)", "l1_with_penalty"}

\* The loss of channel i over the valid positions, computed with fn
LossWith(fn, self, batch, i) ==
    LET idx == where(batch.attn_mask)
        input == [j \in 1..Len(idx) |-> batch.predicted_noise[idx[j][1]][idx[j][2]][i]]
        target == [j \in 1..Len(idx) |-> batch.known_noise[idx[j][1]][idx[j][2]][i]]
    IN  CASE fn = "F.l1_loss" -> F_l1_loss(input, target)
          [] fn = "F.smooth_l1_loss" -> F_smooth_l1_loss(input, target)
          [] fn = "partial(losses.radian_smooth_l1_loss)" ->
                radian_smooth_l1_loss(input, target, self.circle_lambda)
          [] fn = "l1_with_penalty" -> l1_with_penalty(input, target, self.circle_lambda)

\* C14: when the losses are one callable or a list of callables, channel i's
\* callable is called with circle_penalty = circle_lambda if and only if it
\* declares circle_penalty (positionally or keyword-only); one that does not
\* is called with the predicted and known values only, and nothing is raised.
C14_CirclePenaltyDetected ==
    (op = "_get_loss_terms" /\ model.loss_func.kind \in {"list", "callable"})
    => /\ raised = NoError
       /\ Len(retval) = model.n_inputs
       /\ \A i \in 1..model.n_inputs :
            LET fn == IF model.loss_func.kind = "list" THEN model.loss_func.fns[i]
                      ELSE model.loss_func.fns[1]
                idx == where(args.attn_mask)
                input == [j \in 1..Len(idx) |-> args.predicted_noise[idx[j][1]][idx[j][2]][i]]
                target == [j \in 1..Len(idx) |-> args.known_noise[idx[j][1]][idx[j][2]][i]]
            IN  /\ retval[i] = LossWith(fn, model, args, i)
                /\ fn \notin DeclareCirclePenalty => retval[i] = CallLoss(fn, input, target)

C14_Witness ==
    /\ op = "_get_loss_terms" /\ raised = NoError
    /\ model.loss_func =
            FnLoss("list", <<"partial(losses.radian_smooth_l1_loss)", "l1_with_penalty">>)
    /\ model.circle_lambda = 1
    /\ args.attn_mask = <<<<TRUE, TRUE>>, <<TRUE, FALSE>>>>
    /\ retval[1] # LossWith("partial(losses.radian_smooth_l1_loss)",
                            [model EXCEPT !.circle_lambda = 0], args, 1)
    /\ retval[2] # LossWith("l1_with_penalty", [model EXCEPT !.circle_lambda = 0], args, 2)

\* C16: every loss argument that is not a string and passes the check of
\* __init__ works in _get_loss_terms: one callable computes every channel's
\* loss, and of a list or a tuple of as many callables as channels, element i
\* computes channel i's loss.
C16_GivenLossUsable ==
    (op = "_get_loss_terms" /\ model.loss_func.kind \in {"callable", "list", "tuple"})
    => /\ raised = NoError
       /\ Len(retval) = model.n_inputs
       /\ \A i \in 1..model.n_inputs :
            retval[i] = LossWith(IF model.loss_func.kind = "callable"
                                 THEN model.loss_func.fns[1] ELSE model.loss_func.fns[i],
                                 model, args, i)

----------------------------------------------------------------------------
(* The step handlers.                                                      *)

\* torch.mean(loss_terms): the mean over channels of the per-channel means,
\* as the fraction num / den (den = 0 is NaN)
MeanOfTerms(loss_terms) ==
    LET n == IF loss_terms = <<>> THEN 0 ELSE loss_terms[1].n
    IN  [num |-> SumSeq([i \in 1..Len(loss_terms) |-> loss_terms[i].sum]),
         den |-> n * Len(loss_terms)]

\* sum(torch.linalg.norm(p, 1) for p in self.parameters())
l1_penalty(self) == SumSeq([i \in 1..Len(self.parameters) |-> Abs(self.parameters[i])])

\* avg_loss += coefficient * penalty (a NaN stays NaN)
AddPenalty(avg_loss, coefficient, penalty) ==
    [num |-> avg_loss.num + coefficient * penalty * LossScale * avg_loss.den,
     den |-> avg_loss.den]

\* The dictionary handed to log_dict: one entry per feature name, and the total
LossDict(prefix, self, loss_terms, avg_loss) ==
    [prefix |-> prefix,
     per_feature |-> [i \in 1..Len(loss_terms) |-> <<self.ft_names[i], loss_terms[i]>>],
     total |-> avg_loss]

StepRaise(self, exc) == [raised |-> exc, retval |-> NoValue, logged |-> NoLog, self |-> self,
                         created |-> FALSE, write_preds |-> None, dump |-> NoValue]

training_step_with_l2(self, batch) ==
    LET r == _get_loss_terms(self, batch, None, "ok")
        avg_loss == AddPenalty(MeanOfTerms(r.loss_terms), self.l2_lambda, l1_penalty(self))
    IN  IF r.raised # NoError THEN StepRaise(self, r.raised)
        ELSE [raised |-> NoError, retval |-> avg_loss,
              logged |-> LossDict("train_loss", self, r.loss_terms, avg_loss), self |-> self,
              created |-> FALSE, write_preds |-> None, dump |-> NoValue]

training_step_writing_preds(self, batch) ==
    LET write_preds == IF Truthy(self.write_preds_to_dir)
                       THEN <<self.write_preds_to_dir, self.write_preds_counter, "_preds.json">>
                       ELSE None
        r == _get_loss_terms(self, batch, write_preds, "ok")
        mean == MeanOfTerms(r.loss_terms)
        avg_loss == IF self.l1_lambda > 0
                    THEN AddPenalty(mean, self.l1_lambda, l1_penalty(self))
                    ELSE mean
    IN  IF r.raised # NoError THEN StepRaise(self, r.raised)
        ELSE [raised |-> NoError, retval |-> avg_loss,
              logged |-> LossDict("train_loss", self, r.loss_terms, avg_loss), self |-> self,
              created |-> r.created, write_preds |-> write_preds, dump |-> r.dump]

\* BertForDiffusion.training_step(batch, batch_idx)
training_step(self, batch) ==
    LET r == _get_loss_terms(self, batch, None, "ok")
        mean == MeanOfTerms(r.loss_terms)
        avg_loss == IF self.l1_lambda > 0
                    THEN AddPenalty(mean, self.l1_lambda, l1_penalty(self))
                    ELSE mean
    IN  IF r.raised # NoError THEN StepRaise(self, r.raised)
        ELSE [raised |-> NoError, retval |-> avg_loss,
              logged |-> LossDict("train_loss", self, r.loss_terms, avg_loss), self |-> self,
              created |-> r.created, write_preds |-> None, dump |-> r.dump]

\* os.path.join(self.write_preds_to_dir, f"{self.write_preds_counter}_preds.json")
PredsFile(self) == <<self.write_preds_to_dir, self.write_preds_counter, "_preds.json">>

validation_step_counting_writes(self, batch, io) ==
    LET write_preds == IF Truthy(self.write_preds_to_dir) THEN PredsFile(self) ELSE None
        r == _get_loss_terms(self, batch, write_preds, io)
        avg_loss == MeanOfTerms(r.loss_terms)
    IN  IF r.raised # NoError
        THEN [StepRaise(self, r.raised) EXCEPT !.created = r.created, !.write_preds = write_preds]
        ELSE [raised |-> NoError, retval |-> [val_loss |-> avg_loss],
              logged |-> LossDict("val_loss", self, r.loss_terms, avg_loss),
              self |-> IF write_preds # None
                       THEN [self EXCEPT !.write_preds_counter = @ + 1] ELSE self,
              created |-> r.created, write_preds |-> write_preds, dump |-> r.dump]

validation_step_counting_first(self, batch, io) ==
    LET write_preds == IF Truthy(self.write_preds_to_dir) THEN PredsFile(self) ELSE None
        counted == [self EXCEPT !.write_preds_counter = @ + 1]
        r == _get_loss_terms(self, batch, write_preds, io)
        avg_loss == MeanOfTerms(r.loss_terms)
    IN  IF r.raised # NoError
        THEN [StepRaise(counted, r.raised) EXCEPT !.created = r.created,
                                                  !.write_preds = write_preds]
        ELSE [raised |-> NoError, retval |-> [val_loss |-> avg_loss],
              logged |-> LossDict("val_loss", self, r.loss_terms, avg_loss),
              self |-> counted,
              created |-> r.created, write_preds |-> write_preds, dump |-> r.dump]

\* BertForDiffusion.validation_step(batch, batch_idx)
validation_step(self, batch, io) ==
    LET write_preds == IF Truthy(self.write_preds_to_dir) THEN PredsFile(self) ELSE None
        r == _get_loss_terms(self, batch, write_preds, io)
        avg_loss == MeanOfTerms(r.loss_terms)
    IN  IF r.raised # NoError
        THEN [StepRaise(self, r.raised) EXCEPT !.created = r.created, !.write_preds = write_preds]
        ELSE [raised |-> NoError, retval |-> [val_loss |-> avg_loss],
              logged |-> LossDict("val_loss", self, r.loss_terms, avg_loss),
              self |-> [self EXCEPT !.write_preds_counter = @ + 1],
              created |-> r.created, write_preds |-> write_preds, dump |-> r.dump]

\* BertForDiffusion.training_epoch_end(outputs), run at time now; torch.stack
\* raises on an empty list of outputs.
training_epoch_end(self, outputs, now) ==
    IF outputs = <<>> THEN StepRaise(self, "RuntimeError")
    ELSE [raised |-> NoError, retval |-> NoValue,
          logged |-> [prefix |-> "Train loss at epoch", epoch |-> self.train_epoch_counter,
                      mean_loss |-> [num |-> SumSeq(outputs), den |-> Len(outputs)],
                      t_delta |-> now - self.train_epoch_last_time],
          self |-> [self EXCEPT !.train_epoch_counter = @ + 1, !.train_epoch_last_time = now],
          created |-> FALSE, write_preds |-> None, dump |-> NoValue]

validation_epoch_end_incrementing(self, outputs) ==
    IF outputs = <<>> THEN StepRaise(self, "RuntimeError")
    ELSE [raised |-> NoError, retval |-> NoValue,
          logged |-> [prefix |-> "Valid loss at epoch", epoch |-> self.train_epoch_counter,
                      mean_loss |-> [num |-> SumSeq(outputs), den |-> Len(outputs)]],
          self |-> [self EXCEPT !.train_epoch_counter = @ + 1],
          created |-> FALSE, write_preds |-> None, dump |-> NoValue]

\* BertForDiffusion.validation_epoch_end(outputs)
validation_epoch_end(self, outputs) ==
    IF outputs = <<>> THEN StepRaise(self, "RuntimeError")
    ELSE [raised |-> NoError, retval |-> NoValue,
          logged |-> [prefix |-> "Valid loss at epoch", epoch |-> self.train_epoch_counter,
                      mean_loss |-> [num |-> SumSeq(outputs), den |-> Len(outputs)]],
          self |-> self,
          created |-> FALSE, write_preds |-> None, dump |-> NoValue]

----------------------------------------------------------------------------
(* The step specification: one instance driven through training and        *)
(* validation steps and epoch ends in any order.                           *)

StepCtorArgs ==
    {[InitDefaults EXCEPT !.ft_is_angular = AlternatingFlags(k), !.l1 = reg[1], !.l2 = reg[2],
                          !.lr_scheduler = "LinearWarmup", !.write_preds_to_dir = dir]
        @@ [config |-> Config(FALSE)] :
        k \in {1, MaxChannels}, reg \in {<<-1, 0>>, <<0, 1>>, <<2, 0>>, <<2, 1>>},
        dir \in {None, "preds"}}

InitStep ==
    /\ op = "none"
    /\ args = NoValue
    /\ raised = NoError
    /\ retval = NoValue
    /\ model \in {__init__(a, <<1, -2>>).self : a \in StepCtorArgs}
    /\ logged = NoLog
    /\ preds_dir = {}
    /\ val_writes = <<>>

\* The batches of one sequence padded to MaxSeqLen residues
StepBatches(C) ==
    {[known_noise |-> NoisePattern(3, 1, MaxSeqLen, C),
      predicted_noise |-> NoisePattern(1, 1, MaxSeqLen, C),
      attn_mask |-> m] : m \in PaddingMasks(1, MaxSeqLen)}

EpochOutputs == {<<>>, <<3, 5>>}

TrainingStep ==
    \E batch \in StepBatches(model.n_inputs) :
        LET r == training_step(model, batch)
        IN  /\ op' = "training_step"
            /\ args' = batch
            /\ raised' = r.raised
            /\ retval' = r.retval
            /\ logged' = r.logged
            /\ model' = r.self
            /\ preds_dir' = IF r.created THEN preds_dir \cup {r.write_preds} ELSE preds_dir
            /\ UNCHANGED val_writes

ValidationStep ==
    /\ model.write_preds_counter < MaxSteps
    /\ \E batch \in StepBatches(model.n_inputs), io \in {"ok", "open_fails", "dump_fails"} :
        LET r == validation_step(model, batch, io)
        IN  /\ Truthy(model.write_preds_to_dir) \/ io = "ok"
            /\ op' = "validation_step"
            /\ args' = [io |-> io] @@ batch
            /\ raised' = r.raised
            /\ retval' = r.retval
            /\ logged' = r.logged
            /\ model' = r.self
            /\ preds_dir' = IF r.created THEN preds_dir \cup {r.write_preds} ELSE preds_dir
            /\ val_writes' = IF r.raised = NoError /\ r.write_preds # None
                             THEN Append(val_writes, r.write_preds) ELSE val_writes

TrainingEpochEnd ==
    /\ model.train_epoch_counter < MaxEpochs
    /\ \E outputs \in EpochOutputs, now \in model.train_epoch_last_time..MaxTime :
        LET r == training_epoch_end(model, outputs, now)
        IN  /\ op' = "training_epoch_end"
            /\ args' = outputs
            /\ raised' = r.raised
            /\ retval' = r.retval
            /\ logged' = r.logged
            /\ model' = r.self
            /\ UNCHANGED <<preds_dir, val_writes>>

ValidationEpochEnd ==
    \E outputs \in EpochOutputs :
        LET r == validation_epoch_end(model, outputs)
        IN  /\ op' = "validation_epoch_end"
            /\ args' = outputs
            /\ raised' = r.raised
            /\ retval' = r.retval
            /\ logged' = r.logged
            /\ model' = r.self
            /\ UNCHANGED <<preds_dir, val_writes>>

ConfigureOptimizersStep ==
    LET r == configure_optimizers(model)
    IN  /\ op' = "configure_optimizers"
        /\ args' = NoValue
        /\ raised' = r.raised
        /\ retval' = r.retval
        /\ UNCHANGED <<model, logged, preds_dir, val_writes>>

Next ==
    \/ TrainingStep
    \/ ValidationStep
    \/ TrainingEpochEnd
    \/ ValidationEpochEnd
    \/ ConfigureOptimizersStep

Spec == InitStep /\ [][Next]_vars

\* C6: training_step returns the mean of the per-channel losses, plus
\* l1_lambda times the summed L1 norms of the parameters when l1_lambda is
\* positive (and nothing more when it is 0); the value is the same under any
\* L2 coefficient, and the per-channel losses it logs are the unpenalized ones.
C6_TrainingLoss ==
    op = "training_step"
    => LET idx == where(args.attn_mask)
           terms == [i \in 1..model.n_inputs |-> ChannelLoss(model, args, idx, i)]
           n == Len(idx)
           C == model.n_inputs
           total == SumSeq([i \in 1..C |-> terms[i].sum])
           norms == SumSeq([i \in 1..Len(model.parameters) |-> Abs(model.parameters[i])])
           extra == IF model.l1_lambda > 0 THEN model.l1_lambda * norms * LossScale ELSE 0
       IN  /\ raised = NoError
           /\ retval.den = n * C
           /\ retval.num = total + extra * n * C
           /\ model.l1_lambda = 0 => retval.num = total
           /\ \A l2 \in 0..2 : training_step([model EXCEPT !.l2_lambda = l2], args).retval = retval
           /\ logged.total = retval
           /\ \A i \in 1..C : logged.per_feature[i] = <<model.ft_names[i], terms[i]>>

C6_Witness ==
    /\ op = "training_step" /\ raised = NoError
    /\ model.l1_lambda = 2 /\ model.l2_lambda = 1
    /\ model.n_inputs = 2
    /\ args.attn_mask = <<<<TRUE, TRUE>>>>
    /\ retval.den = 4
    /\ retval.num > SumSeq([i \in 1..2 |-> logged.per_feature[i][2].sum])

\* C10: the prediction-write counter starts at 0, each completed
\* validation_step advances it by exactly one and nothing else changes it, so
\* with a predictions directory the k-th completed validation step (k from 0)
\* writes <k>_preds.json and no two completed steps write the same file.
C10_CounterInit == op = "none" => model.write_preds_counter = 0

C10_CounterStep ==
    model'.write_preds_counter =
        IF op' = "validation_step" /\ raised' = NoError
        THEN model.write_preds_counter + 1
        ELSE model.write_preds_counter

C10_Files ==
    /\ \A k \in 1..Len(val_writes) :
            val_writes[k] = <<model.write_preds_to_dir, k - 1, "_preds.json">>
    /\ \A j, k \in 1..Len(val_writes) : j # k => val_writes[j] # val_writes[k]
    /\ Truthy(model.write_preds_to_dir) => Len(val_writes) = model.write_preds_counter
    /\ Range(val_writes) \subseteq preds_dir

C10_WriteCounter == [](C10_CounterInit /\ C10_Files) /\ [][C10_CounterStep]_vars

C10_Witness ==
    /\ op = "training_step"
    /\ model.write_preds_counter = 2
    /\ val_writes = <<<<"preds", 0, "_preds.json">>, <<"preds", 1, "_preds.json">>>>

\* C11: with a predictions directory configured, a validation_step whose
\* prediction file cannot be written is aborted: the error reaches the caller,
\* no validation loss is returned or logged, and the prediction-write counter
\* keeps the value it had before the step.
C11_WriteFailureStep ==
    (op' = "validation_step" /\ Truthy(model.write_preds_to_dir) /\ args'.io # "ok")
    => /\ raised' = "OSError"
       /\ retval' = NoValue
       /\ logged' = NoLog
       /\ model'.write_preds_counter = model.write_preds_counter
       /\ val_writes' = val_writes

C11_WriteFailureAborts == [][C11_WriteFailureStep]_vars

C11_Witness ==
    /\ op = "validation_step" /\ args.io = "open_fails"
    /\ raised = "OSError" /\ retval = NoValue /\ logged = NoLog
    /\ model.write_preds_to_dir = "preds"
    /\ model.write_preds_counter = 1
    /\ val_writes = <<<<"preds", 0, "_preds.json">>>>

\* C12: the epoch counter starts at 0; a completed training_epoch_end raises it
\* by exactly one and resets the epoch timer, and nothing else changes either;
\* the training summary of the n-th epoch end (n from 1) reports epoch n - 1 and
\* leaves the counter at n; a validation_epoch_end directly followed by the
\* training_epoch_end of the epoch reports the same epoch number as it.
C12_EpochInit ==
    /\ op = "none" => model.train_epoch_counter = 0
    /\ (op = "training_epoch_end" /\ raised = NoError)
        => model.train_epoch_counter = logged.epoch + 1
    /\ (op = "validation_epoch_end" /\ raised = NoError)
        => logged.epoch = model.train_epoch_counter

C12_EpochStep ==
    /\ model'.train_epoch_counter =
            IF op' = "training_epoch_end" /\ raised' = NoError
            THEN model.train_epoch_counter + 1
            ELSE model.train_epoch_counter
    /\ ~(op' = "training_epoch_end" /\ raised' = NoError)
        => model'.train_epoch_last_time = model.train_epoch_last_time
    /\ (op = "validation_epoch_end" /\ raised = NoError
            /\ op' = "training_epoch_end" /\ raised' = NoError)
        => logged'.epoch = logged.epoch

C12_EpochCounter == []C12_EpochInit /\ [][C12_EpochStep]_vars

C12_Witness ==
    /\ op = "validation_epoch_end" /\ raised = NoError
    /\ model.train_epoch_counter = 1
    /\ logged.epoch = 1

\* C13: training_step changes nothing of the instance (parameters, the
\* prediction-write counter, the epoch counter) and writes no prediction file,
\* also when a predictions directory is configured; validation_step leaves
\* the parameters, the epoch counter and the epoch timer as they were.
C13_FrameStep ==
    /\ op' = "training_step"
        => /\ model' = model
           /\ preds_dir' = preds_dir
           /\ val_writes' = val_writes
    /\ op' = "validation_step"
        => /\ model'.parameters = model.parameters
           /\ model'.train_epoch_counter = model.train_epoch_counter
           /\ model'.train_epoch_last_time = model.train_epoch_last_time

C13_StepFrame == [][C13_FrameStep]_vars

C13_Witness ==
    /\ op = "training_step" /\ raised = NoError
    /\ model.write_preds_to_dir = "preds"
    /\ model.write_preds_counter = 1
    /\ preds_dir = {<<"preds", 0, "_preds.json">>}
    /\ model.parameters = <<1, -2>>

====
